---- MODULE Spec2Model ----
(***************************************************************************)
(* A model of webscrape.py: the command-line entry point and               *)
(* scrape_articles, the breadth-first crawl with its visited set, frontier *)
(* list, output file, console output and run-time limit.                   *)
(*                                                                         *)
(* The network, the HTML parser and the file system are the environment:   *)
(* what a fetched page contains, whether requests.get, the parse or a      *)
(* write raises, and how much time passes are chosen nondeterministically  *)
(* from small sets.                                                        *)
(***************************************************************************)
EXTENDS Integers, Sequences, FiniteSets, TLC

(***************************************************************************)
(* Bounds of the environment.                                              *)
(***************************************************************************)
\* most <a href> elements on one page
MaxLinks == 2
\* most <a href> elements on all the pages of the web together
MaxWebLinks == 3
\* most iterations of one session that end in the inner except clause
MaxErrors == 1
\* largest DEPTH argument
MaxDepthArg == 2
\* largest RUN_TIME argument, in clock ticks
MaxBudget == 1
\* the clock stops advancing here
MaxClock == 1
\* longest page text, in characters
MaxTextLen == 2
\* longest text handed to write_with_line_breaks on its own
MaxWrapLen == 5
\* largest max_line_length handed to write_with_line_breaks on its own
MaxWidth == 3

(***************************************************************************)
(* Strings are sequences of characters; "T" is the upper case of "t".      *)
(***************************************************************************)
Chars == {"t", "T", "x"}

RECURSIVE SeqsUpTo(_, _)
SeqsUpTo(S, n) ==
    IF n = 0 THEN {<<>>}
    ELSE LET shorter == SeqsUpTo(S, n - 1)
         IN  shorter \cup {Append(s, c) : s \in {t \in shorter : Len(t) = n - 1}, c \in S}

\* str.lower() on one character
LowerChar(c) == IF c = "T" THEN "t" ELSE c

\* str.lower()
Lower(s) == [i \in 1..Len(s) |-> LowerChar(s[i])]

\* the `in` operator on two strings: needle occurs in hay as a substring
Contains(needle, hay) ==
    \E i \in 0..(Len(hay) - Len(needle)) :
        SubSeq(hay, i + 1, i + Len(needle)) = needle

\* the match test of the crawl loop, case sensitive: the .lower() calls dropped
IsMatch_CaseSensitive(term, text) == Contains(term, text)

\* search_string.lower() in soup.text.lower()
IsMatch(term, text) == Contains(Lower(term), Lower(text))

(***************************************************************************)
(* URLs and hrefs.  A URL is <<directory, file>>; an href is absolute (it  *)
(* names a URL) or relative (it names a file in the base's directory).     *)
(***************************************************************************)
Dirs == {"r", "s"}
Files == {"a", "b", "c"}
URLs == Dirs \X Files

Abs(u) == <<"abs", u[1], u[2]>>
Rel(f) == <<"rel", "", f>>

\* the hrefs pages carry
Hrefs == {Abs(<<"s", "a">>), Rel("b"), Rel("c")}

\* urllib.parse.urljoin(base, href)
urljoin(base, href) ==
    IF href[1] = "abs" THEN <<href[2], href[3]>> ELSE <<base[1], href[3]>>

\* soup.title.string if soup.title else "No title found"
Titles == {"News", "No title found"}

(***************************************************************************)
(* The webs crawled.  A web says what its pages can carry: the href lists  *)
(* (in document order), the texts and the titles.  LinkWeb has every link  *)
(* structure and one text; TextWeb has every text and title and at most    *)
(* one link per page.  `terms`, `depths` and `budgets` are the             *)
(* SEARCH_STRING, DEPTH and RUN_TIME arguments tried on it, `ticks` the     *)
(* time one requests.get can take.                                         *)
(***************************************************************************)
LinkWeb == [name |-> "links",
            links |-> SeqsUpTo(Hrefs, MaxLinks),
            texts |-> {<<"x">>},
            titles |-> {"News"},
            terms |-> {<<"x">>, <<"t">>},
            depths |-> 0..MaxDepthArg,
            budgets |-> 0..MaxBudget,
            ticks |-> 0..1]

TextWeb == [name |-> "texts",
            links |-> {<<>>, <<Rel("b")>>},
            texts |-> SeqsUpTo(Chars, MaxTextLen),
            titles |-> Titles,
            terms |-> {<<>>, <<"t">>, <<"T">>, <<"x", "T">>},
            depths |-> {1},
            budgets |-> {0},
            ticks |-> {0}]

Webs == {LinkWeb, TextWeb}

\* the URL arguments tried
StartURLs == {<<"r", "a">>}

(***************************************************************************)
(* write_with_line_breaks: the lines it writes, in order.  Positions are   *)
(* 0-based as in the source; text[k] of the source is text[k + 1] here.    *)
(***************************************************************************)
\* the wrap width the crawl passes
max_line_length == 80

RECURSIVE ScanBack(_, _, _)
ScanBack(text, start, end) ==
    IF end > start /\ text[end + 1] # " "
    THEN ScanBack(text, start, end - 1)
    ELSE end

\* the last line loses its last character
LineEnd_DropsLast(text, width, start) ==
    IF start + width < Len(text)
    THEN LET end == ScanBack(text, start, start + width)
         IN  IF end = start THEN start + width ELSE end
    ELSE Len(text) - 1

\* a forced cut one character late
LineEnd_LongCut(text, width, start) ==
    IF start + width < Len(text)
    THEN LET end == ScanBack(text, start, start + width)
         IN  IF end = start THEN start + width + 1 ELSE end
    ELSE Len(text)

LineEnd(text, width, start) ==
    IF start + width < Len(text)
    THEN LET end == ScanBack(text, start, start + width)
         IN  IF end = start THEN start + width ELSE end
    ELSE Len(text)

RECURSIVE WrapFrom(_, _, _)
WrapFrom(text, width, start) ==
    IF start < Len(text)
    THEN LET end == LineEnd(text, width, start)
         IN  <<SubSeq(text, start + 1, end)>> \o WrapFrom(text, width, end + 1)
    ELSE <<>>

write_with_line_breaks(text, width) == WrapFrom(text, width, 0)

(***************************************************************************)
(* The state.                                                              *)
(***************************************************************************)
VARIABLES
    pc,             \* where the program is: main, open, header, loop, returned, exited
    argv,           \* the command line: ok, count (not 5 arguments), number (DEPTH or RUN_TIME no number)
    url,            \* URL argument
    depth,          \* DEPTH argument
    search_string,  \* SEARCH_STRING argument
    run_time,       \* RUN_TIME argument
    now,            \* time.time()
    start_time,     \* start_time
    visited_urls,   \* visited_urls
    urls_to_visit,  \* urls_to_visit, a list of <<url, depth>>
    out_file,       \* the lines written to the output file
    file_state,     \* unopened, open, closed
    console,        \* the lines printed
    fetched,        \* one record per requests.get call, in order: what the iteration did
    soup,           \* what the last iteration of the loop did and the page it saw
    fatal,          \* an outer except clause of scrape_articles has run
    exit_code,      \* the process's exit status, -1 while it runs
    web,            \* the web crawled
    links_left,     \* the hrefs the web's unfetched pages can still carry
    errors_left,    \* the iterations that can still end in the inner except clause
    wr_text,        \* write_with_line_breaks run on its own: text
    wr_width,       \* write_with_line_breaks run on its own: max_line_length
    wr_start        \* write_with_line_breaks run on its own: start

vars == <<pc, argv, url, depth, search_string, run_time, now, start_time,
          visited_urls, urls_to_visit, out_file, file_state, console, fetched,
          soup, fatal, exit_code, web, links_left, errors_left,
          wr_text, wr_width, wr_start>>

args == <<argv, url, depth, search_string, run_time, web>>

env == <<links_left, errors_left>>

wrap == <<wr_text, wr_width, wr_start>>

\* did: none, skip, fetch_error, parse_error, page, write_error; links: the
\* hrefs read; enqueued: the entries appended; written: the lines written
NoSoup == [did |-> "none", url |-> <<"", "">>, depth |-> 0, links |-> <<>>,
           enqueued |-> <<>>, text |-> <<>>, title |-> "", written |-> 0]

Init ==
    /\ pc = "main"
    /\ argv \in {"ok", "count", "number"}
    /\ url \in StartURLs
    /\ web \in Webs
    /\ depth \in web.depths
    /\ search_string \in web.terms
    /\ run_time \in web.budgets
    /\ links_left = MaxWebLinks
    /\ errors_left = MaxErrors
    /\ now = 0
    /\ start_time = 0
    /\ visited_urls = {}
    /\ urls_to_visit = <<>>
    /\ out_file = <<>>
    /\ file_state = "unopened"
    /\ console = <<>>
    /\ fetched = <<>>
    /\ soup = NoSoup
    /\ fatal = FALSE
    /\ exit_code = -1
    /\ wr_text = <<>>
    /\ wr_width = max_line_length
    /\ wr_start = 0

(***************************************************************************)
(* Lines of the output file and of the console.                            *)
(***************************************************************************)
HeaderLines_Swapped(term, u, d) ==
    << <<"URL: ", u[1], u[2]>>,
       <<"Search Term: ">> \o term,
       <<"Search Depth: ", ToString(d)>> >>

\* the three out_file.write calls before the loop
HeaderLines(term, u, d) ==
    << <<"Search Term: ">> \o term,
       <<"URL: ", u[1], u[2]>>,
       <<"Search Depth: ", ToString(d)>> >>

FoundLine(title) == <<"Found article: ", title>>
ErrorLine(u) == <<"Error processing URL ", u[1], u[2]>>
TimeoutLine == <<"Scrape has timed out">>
FileErrorLine == <<"Error opening or writing to output file">>
UnexpectedLine == <<"Unexpected error">>
UsageLine == <<"Usage: python scraper.py URL DEPTH SEARCH_STRING OUTPUT_FILE RUN_TIME">>

WithExit_Leak == "open"

\* leaving the with statement closes the file, on a normal exit, a break or
\* an exception
WithExit == "closed"

(***************************************************************************)
(* The entry point.                                                        *)
(***************************************************************************)
\* len(sys.argv) != 6: the usage line, sys.exit(1)
MainUsage ==
    /\ pc = "main"
    /\ argv = "count"
    /\ console' = Append(console, UsageLine)
    /\ exit_code' = 1
    /\ pc' = "exited"
    /\ UNCHANGED <<args, wrap, now, start_time, visited_urls, urls_to_visit, out_file,
                   file_state, fetched, soup, fatal,
                   env>>

\* int(sys.argv[2]) or float(sys.argv[5]) raises ValueError outside any try
MainBadNumber ==
    /\ pc = "main"
    /\ argv = "number"
    /\ exit_code' = 1
    /\ pc' = "exited"
    /\ UNCHANGED <<args, wrap, now, start_time, visited_urls, urls_to_visit, out_file,
                   file_state, console, fetched, soup, fatal,
                   env>>

\* the call of scrape_articles, up to the open
MainCall ==
    /\ pc = "main"
    /\ argv = "ok"
    /\ start_time' = now
    /\ visited_urls' = {}
    /\ urls_to_visit' = << <<url, 0>> >>
    /\ pc' = "open"
    /\ UNCHANGED <<args, wrap, now, out_file, file_state, console, fetched, soup,
                   fatal, exit_code, env>>

\* scrape_articles has returned; nothing reaches the except clause of the
\* entry point, and the script ends
MainExit ==
    /\ pc = "returned"
    /\ exit_code' = 0
    /\ pc' = "exited"
    /\ UNCHANGED <<args, wrap, now, start_time, visited_urls, urls_to_visit, out_file,
                   file_state, console, fetched, soup, fatal,
                   env>>

(***************************************************************************)
(* Opening the output file and writing the header.                         *)
(***************************************************************************)
OpenOK ==
    /\ pc = "open"
    /\ file_state' = "open"
    /\ out_file' = <<>>
    /\ pc' = "header"
    /\ UNCHANGED <<args, wrap, now, start_time, visited_urls, urls_to_visit, console,
                   fetched, soup, fatal, exit_code,
                   env>>

\* open raises IOError: except IOError prints, scrape_articles returns
OpenFail ==
    /\ pc = "open"
    /\ console' = Append(console, FileErrorLine)
    /\ fatal' = TRUE
    /\ pc' = "returned"
    /\ UNCHANGED <<args, wrap, now, start_time, visited_urls, urls_to_visit, out_file,
                   file_state, fetched, soup, exit_code,
                   env>>

HeaderOK ==
    /\ pc = "header"
    /\ out_file' = out_file \o HeaderLines(search_string, url, depth)
    /\ pc' = "loop"
    /\ UNCHANGED <<args, wrap, now, start_time, visited_urls, urls_to_visit, file_state,
                   console, fetched, soup, fatal, exit_code,
                   env>>

\* the write after k header lines raises: IOError reaches except IOError, any
\* other exception (an encoding error) reaches except Exception; the with
\* statement closes the file
HeaderFail ==
    /\ pc = "header"
    /\ \E k \in 0..2, line \in {FileErrorLine, UnexpectedLine} :
          /\ out_file' = out_file \o SubSeq(HeaderLines(search_string, url, depth), 1, k)
          /\ console' = Append(console, line)
    /\ file_state' = WithExit
    /\ fatal' = TRUE
    /\ pc' = "returned"
    /\ UNCHANGED <<args, wrap, now, start_time, visited_urls, urls_to_visit, fetched,
                   soup, exit_code,
                   env>>

(***************************************************************************)
(* The crawl loop.  Each action is one iteration of `while urls_to_visit`. *)
(***************************************************************************)
ShouldSkip_DepthOnly(u, d) == d > depth
ShouldSkip_VisitedOnly(u, d) == u \in visited_urls
ShouldSkip_Never(u, d) == FALSE

\* current_url in visited_urls or current_depth > depth
ShouldSkip(u, d) == u \in visited_urls \/ d > depth

Discovered_NoIncrement(page, links, d) ==
    [i \in 1..Len(links) |-> <<urljoin(url, links[i]), d>>]

\* (urljoin(url, href), current_depth + 1) for each href of the page, in
\* document order: url is the URL argument of scrape_articles
Discovered(page, links, d) ==
    [i \in 1..Len(links) |-> <<urljoin(url, links[i]), d + 1>>]

EnqueueLinks_AtFront(queue, entries) == entries \o queue

\* urls_to_visit.append, once per entry
EnqueueLinks(queue, entries) == queue \o entries

Expired_Never(elapsed) == FALSE

\* elapsed_time > run_time
Expired(elapsed) == elapsed > run_time

AfterPageError_Abort == "returned"

\* the inner except clause ends the iteration; the while loop goes on
AfterPageError == "loop"

\* the ticks one requests.get can take
Ticks == {dt \in web.ticks : now + dt <= MaxClock}

\* while urls_to_visit: the list is empty, the with statement closes the file
LoopExit ==
    /\ pc = "loop"
    /\ urls_to_visit = <<>>
    /\ file_state' = WithExit
    /\ pc' = "returned"
    /\ UNCHANGED <<args, wrap, now, start_time, visited_urls, urls_to_visit, out_file,
                   console, fetched, soup, fatal, exit_code,
                   env>>

\* pop(0), then continue: the URL is visited or the entry too deep
Skip ==
    /\ pc = "loop"
    /\ urls_to_visit # <<>>
    /\ LET current_url == Head(urls_to_visit)[1]
           current_depth == Head(urls_to_visit)[2]
       IN  /\ ShouldSkip(current_url, current_depth)
           /\ urls_to_visit' = Tail(urls_to_visit)
           /\ soup' = [NoSoup EXCEPT !.did = "skip", !.url = current_url,
                                     !.depth = current_depth]
    /\ UNCHANGED <<args, wrap, pc, now, start_time, visited_urls, out_file, file_state,
                   console, fetched, fatal, exit_code,
                   env>>

\* requests.get, response.text or BeautifulSoup raises: the inner except
\* clause prints, no link is appended, the deadline is not looked at
FetchFail ==
    /\ pc = "loop"
    /\ urls_to_visit # <<>>
    /\ errors_left > 0
    /\ LET current_url == Head(urls_to_visit)[1]
           current_depth == Head(urls_to_visit)[2]
       IN  /\ ~ShouldSkip(current_url, current_depth)
           /\ visited_urls' = visited_urls \cup {current_url}
           /\ urls_to_visit' = Tail(urls_to_visit)
           /\ console' = Append(console, ErrorLine(current_url))
           /\ soup' = [NoSoup EXCEPT !.did = "fetch_error", !.url = current_url,
                                     !.depth = current_depth]
           /\ fetched' = Append(fetched, soup')
    /\ \E dt \in Ticks : now' = now + dt
    /\ pc' = AfterPageError
    /\ errors_left' = errors_left - 1
    /\ UNCHANGED <<args, wrap, start_time, out_file, file_state, fatal, exit_code,
                   links_left>>

\* the page is fetched and parsed; urljoin raises ValueError on an href after
\* the hrefs `links` before it were appended
ParseFail ==
    /\ pc = "loop"
    /\ urls_to_visit # <<>>
    /\ errors_left > 0
    /\ \E links \in web.links, dt \in Ticks :
        LET current_url == Head(urls_to_visit)[1]
            current_depth == Head(urls_to_visit)[2]
        IN  /\ Len(links) < MaxLinks
            /\ Len(links) < links_left
            /\ ~ShouldSkip(current_url, current_depth)
            /\ visited_urls' = visited_urls \cup {current_url}
            /\ urls_to_visit' = EnqueueLinks(Tail(urls_to_visit),
                                    Discovered(current_url, links, current_depth))
            /\ console' = Append(console, ErrorLine(current_url))
            /\ soup' = [NoSoup EXCEPT !.did = "parse_error", !.url = current_url,
                                      !.depth = current_depth, !.links = links,
                                      !.enqueued = Discovered(current_url, links,
                                                              current_depth)]
            /\ fetched' = Append(fetched, soup')
            /\ now' = now + dt
            /\ links_left' = links_left - (Len(links) + 1)
    /\ pc' = AfterPageError
    /\ errors_left' = errors_left - 1
    /\ UNCHANGED <<args, wrap, start_time, out_file, file_state, fatal, exit_code>>

\* a whole iteration without an exception: fetch, parse, append every link,
\* test the text, print and write a match, look at the deadline
PageOK ==
    /\ pc = "loop"
    /\ urls_to_visit # <<>>
    /\ \E links \in web.links, text \in web.texts, title \in web.titles, dt \in Ticks :
        LET current_url == Head(urls_to_visit)[1]
            current_depth == Head(urls_to_visit)[2]
            match == IsMatch(search_string, text)
            lines == write_with_line_breaks(text, max_line_length)
            timed_out == Expired((now + dt) - start_time)
        IN  /\ Len(links) <= links_left
            /\ ~ShouldSkip(current_url, current_depth)
            /\ visited_urls' = visited_urls \cup {current_url}
            /\ urls_to_visit' = EnqueueLinks(Tail(urls_to_visit),
                                    Discovered(current_url, links, current_depth))
            /\ now' = now + dt
            /\ out_file' = IF match THEN out_file \o lines ELSE out_file
            /\ console' = console
                            \o (IF match THEN <<FoundLine(title)>> ELSE <<>>)
                            \o (IF timed_out THEN <<TimeoutLine>> ELSE <<>>)
            /\ soup' = [did |-> "page", url |-> current_url, depth |-> current_depth,
                        links |-> links,
                        enqueued |-> Discovered(current_url, links, current_depth),
                        text |-> text, title |-> title,
                        written |-> IF match THEN Len(lines) ELSE 0]
            /\ pc' = IF timed_out THEN "returned" ELSE "loop"
            /\ file_state' = IF timed_out THEN WithExit ELSE file_state
            /\ links_left' = links_left - Len(links)
            /\ fetched' = Append(fetched, soup')
    /\ UNCHANGED <<args, wrap, start_time, fatal, exit_code, errors_left>>

\* the page matches and a file.write of write_with_line_breaks raises after
\* k lines: the inner except clause (except Exception) catches it
PageWriteFail ==
    /\ pc = "loop"
    /\ urls_to_visit # <<>>
    /\ errors_left > 0
    /\ \E links \in web.links, text \in web.texts, title \in web.titles, dt \in Ticks :
        LET current_url == Head(urls_to_visit)[1]
            current_depth == Head(urls_to_visit)[2]
            lines == write_with_line_breaks(text, max_line_length)
        IN  /\ Len(links) <= links_left
            /\ ~ShouldSkip(current_url, current_depth)
            /\ IsMatch(search_string, text)
            /\ \E k \in 0..(Len(lines) - 1) :
                  /\ out_file' = out_file \o SubSeq(lines, 1, k)
                  /\ soup' = [did |-> "write_error", url |-> current_url,
                              depth |-> current_depth, links |-> links,
                              enqueued |-> Discovered(current_url, links,
                                                      current_depth),
                              text |-> text, title |-> title, written |-> k]
            /\ visited_urls' = visited_urls \cup {current_url}
            /\ urls_to_visit' = EnqueueLinks(Tail(urls_to_visit),
                                    Discovered(current_url, links, current_depth))
            /\ now' = now + dt
            /\ console' = console \o <<FoundLine(title), ErrorLine(current_url)>>
            /\ links_left' = links_left - Len(links)
            /\ fetched' = Append(fetched, soup')
    /\ pc' = AfterPageError
    /\ errors_left' = errors_left - 1
    /\ UNCHANGED <<args, wrap, start_time, file_state, fatal, exit_code>>

Next ==
    \/ MainUsage
    \/ MainBadNumber
    \/ MainCall
    \/ MainExit
    \/ OpenOK
    \/ OpenFail
    \/ HeaderOK
    \/ HeaderFail
    \/ LoopExit
    \/ Skip
    \/ FetchFail
    \/ ParseFail
    \/ PageOK
    \/ PageWriteFail

Spec == Init /\ [][Next]_vars

(***************************************************************************)
(* write_with_line_breaks run on its own, on every text up to MaxWrapLen   *)
(* characters and every max_line_length up to MaxWidth.  Each step is one  *)
(* iteration of its outer while loop; the lines written are out_file.      *)
(***************************************************************************)
\* the characters of the texts: two letters, a space, a tab
WrapChars == {"a", "b", " ", "\t"}

InitWrap ==
    /\ pc = "wrap"
    /\ wr_text \in SeqsUpTo(WrapChars, MaxWrapLen)
    /\ wr_width \in 1..MaxWidth
    /\ wr_start = 0
    /\ out_file = <<>>
    /\ file_state = "open"
    /\ argv = "ok"
    /\ url \in StartURLs
    /\ web = TextWeb
    /\ depth = 0
    /\ search_string = <<>>
    /\ run_time = 0
    /\ links_left = 0
    /\ errors_left = 0
    /\ now = 0
    /\ start_time = 0
    /\ visited_urls = {}
    /\ urls_to_visit = <<>>
    /\ console = <<>>
    /\ fetched = <<>>
    /\ soup = NoSoup
    /\ fatal = FALSE
    /\ exit_code = -1

\* one iteration of `while start < len(text)`: find end, write the line,
\* start = end + 1
WrapLine ==
    /\ pc = "wrap"
    /\ wr_start < Len(wr_text)
    /\ LET end == LineEnd(wr_text, wr_width, wr_start)
       IN  /\ out_file' = Append(out_file, SubSeq(wr_text, wr_start + 1, end))
           /\ wr_start' = end + 1
    /\ UNCHANGED <<args, pc, wr_text, wr_width, now, start_time, visited_urls,
                   urls_to_visit, file_state, console, fetched, soup, fatal,
                   exit_code, env>>

\* start < len(text) is false: the function returns
WrapReturn ==
    /\ pc = "wrap"
    /\ wr_start >= Len(wr_text)
    /\ pc' = "wrapped"
    /\ UNCHANGED <<args, wrap, now, start_time, visited_urls, urls_to_visit,
                   out_file, file_state, console, fetched, soup, fatal,
                   exit_code, env>>

NextWrap ==
    \/ WrapLine
    \/ WrapReturn

SpecWrap == InitWrap /\ [][NextWrap]_vars

(***************************************************************************)
(* The script is one sequential process: whenever a step is possible the   *)
(* interpreter takes it, and every call of requests.get returns or raises. *)
(***************************************************************************)
\* the sessions whose pages vary in their links
InitCrawl == Init /\ web = LinkWeb

FairSpec == InitCrawl /\ [][Next]_vars /\ WF_vars(Next)

(***************************************************************************)
(* Helpers of the properties.                                              *)
(***************************************************************************)
\* how many times x occurs in the sequence s
Count(s, x) == Cardinality({i \in 1..Len(s) : s[i] = x})

\* the URLs of the requests.get calls, in order
FetchedURLs == [i \in 1..Len(fetched) |-> fetched[i].url]

\* the step is an iteration of the loop that called requests.get
FetchStep == fetched' # fetched

\* the record of that iteration
ThisFetch == fetched'[Len(fetched')]

(***************************************************************************)
(* C1: no URL is fetched more than once in a session, whatever the pages   *)
(* link to and whichever fetches fail: no two requests.get calls have the  *)
(* same URL, and a step that fetches a URL fetches one that is not yet in  *)
(* visited_urls.                                                           *)
(***************************************************************************)
C1_FetchedOnce ==
    /\ \A i, j \in 1..Len(fetched) : fetched[i].url = fetched[j].url => i = j
    /\ \A i \in 1..Len(fetched) : fetched[i].url \in visited_urls

\* an entry for a URL whose fetch failed was dequeued within the depth limit
\* and discarded
C1_Witness ==
    /\ soup.did = "skip"
    /\ soup.depth <= depth
    /\ \E i \in 1..Len(fetched) :
          fetched[i].url = soup.url /\ fetched[i].did = "fetch_error"

(***************************************************************************)
(* C2: every requests.get call is for an entry whose depth is at most the  *)
(* DEPTH argument.                                                         *)
(***************************************************************************)
C2_FetchWithinDepth ==
    \A i \in 1..Len(fetched) : fetched[i].depth <= depth

\* an entry deeper than DEPTH for a URL never fetched was dequeued and discarded
C2_Witness ==
    /\ soup.did = "skip"
    /\ soup.depth > depth
    /\ soup.url \notin visited_urls

(***************************************************************************)
(* C3: the frontier is a FIFO queue and the crawl is breadth-first.  Every *)
(* step that changes urls_to_visit removes its first entry and appends the *)
(* new entries behind the rest, and the entry fetched is the one that was  *)
(* first; the depths of successive fetches never decrease; and when the    *)
(* seed links to A and B and A links to C, the fetch order is seed, A, B,  *)
(* C.                                                                      *)
(***************************************************************************)
\* the URLs one iteration appended, in order
Targets(rec) == [i \in 1..Len(rec.enqueued) |-> rec.enqueued[i][1]]

C3_FifoStep ==
    \/ urls_to_visit' = urls_to_visit
    \/ pc = "main" /\ urls_to_visit' = << <<url, 0>> >>
    \/ /\ urls_to_visit # <<>>
       /\ Len(urls_to_visit') >= Len(urls_to_visit) - 1
       /\ SubSeq(urls_to_visit', 1, Len(urls_to_visit) - 1) = Tail(urls_to_visit)
       /\ SubSeq(urls_to_visit', Len(urls_to_visit), Len(urls_to_visit')) = soup'.enqueued
       /\ <<soup'.url, soup'.depth>> = Head(urls_to_visit)
       /\ FetchStep => ThisFetch = soup'

C3_DepthsNeverDecrease ==
    \A i, j \in 1..Len(fetched) : i <= j => fetched[i].depth <= fetched[j].depth

C3_SeedABC ==
    \A a, b, c \in URLs :
        ( /\ Cardinality({url, a, b, c}) = 4
          /\ Len(fetched) = 4
          /\ {fetched[i].url : i \in 1..4} = {url, a, b, c}
          /\ \A i \in 1..4 :
                Targets(fetched[i]) = IF fetched[i].url = url THEN <<a, b>>
                                      ELSE IF fetched[i].url = a THEN <<c>>
                                      ELSE <<>> )
        => FetchedURLs = <<url, a, b, c>>

\* C3: urls_to_visit is dequeued in the order it was enqueued, the depths of
\* successive fetches never decrease, and seed -> A, B with A -> C is fetched
\* in the order seed, A, B, C
C3_BreadthFirst ==
    /\ [][C3_FifoStep]_vars
    /\ []C3_DepthsNeverDecrease
    /\ []C3_SeedABC

\* the seed linked to A and B, A linked to C, and all four were fetched
C3_Witness ==
    /\ Len(fetched) = 4
    /\ Cardinality({fetched[i].url : i \in 1..4}) = 4
    /\ fetched[1].url = url
    /\ Targets(fetched[1]) = <<fetched[2].url, fetched[3].url>>
    /\ Targets(fetched[2]) = <<fetched[4].url>>
    /\ Targets(fetched[3]) = <<>>
    /\ Targets(fetched[4]) = <<>>
    /\ fetched[4].depth = 2

(***************************************************************************)
(* C4: the entries appended for the hrefs of a fetched page u at depth d   *)
(* are (urljoin(u, href), d + 1): each href is resolved against the page   *)
(* it was found on.                                                        *)
(***************************************************************************)
C4_ResolvedAgainstPage ==
    \A i \in 1..Len(fetched) :
        fetched[i].enqueued =
            [k \in 1..Len(fetched[i].links) |->
                <<urljoin(fetched[i].url, fetched[i].links[k]), fetched[i].depth + 1>>]

(***************************************************************************)
(* C5: a failed write to the output file aborts the session at once,       *)
(* whether it is a header write or a write of a matching page's text:      *)
(* after it no entry is dequeued and no URL is fetched.                    *)
(***************************************************************************)
\* a write to the output file has raised
SinkWriteFailed ==
    \/ fatal /\ file_state = "closed"
    \/ \E i \in 1..Len(fetched) : fetched[i].did = "write_error"

\* C5: once a write to the output file has raised, no step dequeues an entry
\* or fetches a URL
C5_SinkFailureAborts ==
    [][SinkWriteFailed => urls_to_visit' = urls_to_visit /\ fetched' = fetched]_vars

(***************************************************************************)
(* C6: a session whose output file cannot be opened or written ends the    *)
(* process with a non-zero exit status; a session that ends because the    *)
(* frontier is empty or the run time is over ends it with status zero.     *)
(***************************************************************************)
C6_ExitStatus ==
    (pc = "exited" /\ argv = "ok") =>
        IF fatal \/ SinkWriteFailed THEN exit_code # 0 ELSE exit_code = 0

(***************************************************************************)
(* C7: a fetch or parse failure is isolated to its URL.  The step prints   *)
(* exactly the one line "Error processing URL <url>", leaves the URL in    *)
(* visited_urls, leaves the output file alone and stays in the loop with   *)
(* the next queued entry at the front; and the URL is fetched once and has *)
(* one error line ever after.                                              *)
(***************************************************************************)
PageErrors == {"fetch_error", "parse_error"}

C7_ErrorStep ==
    (FetchStep /\ ThisFetch.did \in PageErrors) =>
        /\ console' = Append(console, ErrorLine(ThisFetch.url))
        /\ ThisFetch.url \in visited_urls'
        /\ out_file' = out_file
        /\ file_state' = file_state
        /\ pc' = "loop"
        /\ Len(urls_to_visit) >= 2 => Head(urls_to_visit') = urls_to_visit[2]

C7_OneErrorLine ==
    \A i \in 1..Len(fetched) :
        fetched[i].did \in PageErrors =>
            /\ Count(console, ErrorLine(fetched[i].url)) = 1
            /\ Count(FetchedURLs, fetched[i].url) = 1
            /\ fetched[i].url \in visited_urls

\* C7: every failing fetch or parse step is isolated as described, and every
\* failed URL has one error line, one fetch and its place in visited_urls
C7_FailureIsolated ==
    /\ [][C7_ErrorStep]_vars
    /\ []C7_OneErrorLine

\* a fetch failed, a later page was fetched, and an entry for the failed URL
\* was then dequeued and discarded
C7_Witness ==
    /\ soup.did = "skip"
    /\ \E i, j \in 1..Len(fetched) :
          /\ i < j
          /\ fetched[i].did \in PageErrors
          /\ fetched[i].url = soup.url
          /\ fetched[j].did = "page"

(***************************************************************************)
(* C8: when the deadline test after a processed page finds the elapsed     *)
(* time greater than RUN_TIME, the step prints "Scrape has timed out" as   *)
(* its last line and leaves the loop; the line is printed once, and after  *)
(* it no entry is dequeued and no URL fetched, even with entries left.     *)
(***************************************************************************)
C8_TimeoutStep ==
    (FetchStep /\ ThisFetch.did = "page" /\ now' - start_time > run_time) =>
        /\ pc' = "returned"
        /\ console'[Len(console')] = TimeoutLine
        /\ Count(console', TimeoutLine) = 1

C8_AfterTimeout ==
    Count(console, TimeoutLine) > 0 =>
        /\ urls_to_visit' = urls_to_visit
        /\ fetched' = fetched
        /\ Count(console', TimeoutLine) = 1
        /\ pc' = "exited"

\* C8: a deadline test that finds the time over prints the timeout line once
\* and ends the loop, and nothing is dequeued or fetched afterwards
C8_TimeoutStops == [][C8_TimeoutStep /\ C8_AfterTimeout]_vars

\* with RUN_TIME 0 the session has ended on the timeout while an entry that
\* would have been fetched is still queued
C8_Witness ==
    /\ pc = "exited"
    /\ run_time = 0
    /\ Count(console, TimeoutLine) = 1
    /\ \E i \in 1..Len(urls_to_visit) :
          /\ urls_to_visit[i][1] \notin visited_urls
          /\ urls_to_visit[i][2] <= depth

(***************************************************************************)
(* C9: the header.                                                         *)
(***************************************************************************)
\* the first three lines of the output file are the header of this session
HeaderInPlace ==
    /\ Len(out_file) >= 3
    /\ out_file[1] = <<"Search Term: ">> \o search_string
    /\ out_file[2] = <<"URL: ", url[1], url[2]>>
    /\ out_file[3] = <<"Search Depth: ", ToString(depth)>>

\* one of the three header writes has raised
HeaderWriteFailed == fatal /\ file_state = "closed"

\* C9 as stated: in every session in which the output file is opened, its
\* first three lines are the header, whatever happens afterwards
C9_HeaderAlways ==
    (file_state # "unopened" /\ pc # "header") => HeaderInPlace

\* C9 as amended: in every session in which the output file is opened and no
\* header write fails, the first three lines of the file are "Search Term:
\* <term>", "URL: <start_url>", "Search Depth: <max_depth>" in that order;
\* they are in place before the first fetch, and no step alters a line
\* already written, whether or not a page matches, a fetch fails or the
\* session times out
C9_HeaderUnlessWriteFails ==
    /\ []((file_state # "unopened" /\ pc # "header" /\ ~HeaderWriteFailed)
            => HeaderInPlace)
    /\ [](fetched # <<>> => HeaderInPlace)
    /\ [][/\ Len(out_file') >= Len(out_file)
          /\ SubSeq(out_file', 1, Len(out_file)) = out_file]_vars

\* a session with a match written, a failed fetch and a timeout has ended
\* with the header in place
C9_Witness ==
    /\ pc = "exited"
    /\ HeaderInPlace
    /\ Len(out_file) > 3
    /\ Count(console, TimeoutLine) = 1
    /\ \E i \in 1..Len(fetched) : fetched[i].did = "fetch_error"

(***************************************************************************)
(* C10: the match test and what a match produces.                          *)
(***************************************************************************)
\* a and b are the same letter in upper or lower case
SameLetter(a, b) == a = b \/ {a, b} = {"t", "T"}

\* term occurs in text at some offset, letter by letter, whatever the case
OccursIgnoringCase(term, text) ==
    \E i \in 0..(Len(text) - Len(term)) :
        \A k \in 1..Len(term) : SameLetter(text[i + k], term[k])

\* the step printed "Found article: <title>" for the page it fetched
FoundPrinted ==
    /\ Len(console') > Len(console)
    /\ console'[Len(console) + 1] = FoundLine(ThisFetch.title)

\* the step printed no "Found article" line
NoFoundPrinted ==
    \A i \in (Len(console) + 1)..Len(console') : console'[i][1] # "Found article: "

\* the step appended the wrapped text of the page it fetched to the file
BlockWritten ==
    out_file' = out_file \o write_with_line_breaks(ThisFetch.text, max_line_length)

\* C10 as stated: for every page fetched and parsed, the Found line and the
\* text block are produced if and only if the term occurs in the text
\* ignoring case, and a page that does not match writes nothing
C10_OutputIffMatch ==
    [][(FetchStep /\ ThisFetch.did \in {"page", "write_error"}) =>
          /\ (FoundPrinted /\ BlockWritten)
                <=> OccursIgnoringCase(search_string, ThisFetch.text)
          /\ ~OccursIgnoringCase(search_string, ThisFetch.text)
                => (out_file' = out_file /\ NoFoundPrinted)]_vars

\* C10 as amended: for every page fetched and parsed, the Found line is
\* printed if and only if the lowercased term is a substring of the
\* lowercased text; a page that does not match writes nothing; a page that
\* matches gets its whole text block unless a write of the block fails, and
\* then only the lines written before the failing write are in the file
C10_OutputIffMatchUnlessWriteFails ==
    [][(FetchStep /\ ThisFetch.did \in {"page", "write_error"}) =>
          LET m == OccursIgnoringCase(search_string, ThisFetch.text)
              lines == write_with_line_breaks(ThisFetch.text, max_line_length)
          IN  /\ FoundPrinted <=> m
              /\ ~m => (out_file' = out_file /\ NoFoundPrinted)
              /\ (m /\ ThisFetch.did = "page") => BlockWritten
              /\ ThisFetch.did = "write_error" =>
                    /\ m
                    /\ ThisFetch.written < Len(lines)
                    /\ out_file' = out_file \o SubSeq(lines, 1, ThisFetch.written)]_vars

\* the text "xT" matched the term "t" and its block is the last line of the
\* file, after a page that did not match
C10_Witness ==
    /\ search_string = <<"t">>
    /\ Len(fetched) = 2
    /\ fetched[1].did = "page" /\ ~OccursIgnoringCase(search_string, fetched[1].text)
    /\ fetched[1].text # <<>>
    /\ fetched[2].did = "page" /\ fetched[2].text = <<"x", "T">>
    /\ out_file = HeaderLines(search_string, url, depth) \o << <<"x", "T">> >>
    /\ Count(console, FoundLine(fetched[2].title)) = 1

(***************************************************************************)
(* Helpers of the properties of write_with_line_breaks.                    *)
(***************************************************************************)
Whitespace == {" ", "\t"}

NoWhitespace(t) == \A i \in 1..Len(t) : t[i] \notin Whitespace

RECURSIVE Concat(_)
Concat(lines) == IF lines = <<>> THEN <<>> ELSE Head(lines) \o Concat(Tail(lines))

CeilDiv(n, w) == (n + w - 1) \div w

(***************************************************************************)
(* C11: for a text without whitespace that is longer than max_line_length, *)
(* write_with_line_breaks writes ceil(len / max_line_length) lines, and    *)
(* the lines put together are the text: no character is skipped after a    *)
(* forced cut.                                                             *)
(***************************************************************************)
C11_HardCutRoundTrip ==
    (pc = "wrapped" /\ NoWhitespace(wr_text) /\ Len(wr_text) > wr_width) =>
        /\ Len(out_file) = CeilDiv(Len(wr_text), wr_width)
        /\ Concat(out_file) = wr_text

(***************************************************************************)
(* C12: a text no longer than max_line_length.                             *)
(***************************************************************************)
\* C12 as stated: for every text of length at most max_line_length, the
\* empty text included, exactly one line is written, equal to the text
C12_ShortTextOneLine ==
    (pc = "wrapped" /\ Len(wr_text) <= wr_width) => out_file = <<wr_text>>

\* C12 as amended: for every non-empty text of length at most
\* max_line_length exactly one line is written, equal to the text; for the
\* empty text no line is written
C12_ShortTextOneLineUnlessEmpty ==
    (pc = "wrapped" /\ Len(wr_text) <= wr_width) =>
        out_file = IF wr_text = <<>> THEN <<>> ELSE <<wr_text>>

\* a text with a space in it, exactly max_line_length long, was written as
\* one line
C12_Witness ==
    /\ pc = "wrapped"
    /\ Len(wr_text) = wr_width
    /\ \E i \in 1..Len(wr_text) : wr_text[i] = " "
    /\ out_file = <<wr_text>>

(***************************************************************************)
(* C13: every line write_with_line_breaks writes has at most               *)
(* max_line_length characters, at a break on a space and at a forced cut.  *)
(***************************************************************************)
C13_LineWidth ==
    \A i \in 1..Len(out_file) : Len(out_file[i]) <= wr_width

\* a text was written with a line cut at max_line_length and a shorter line
\* broken at a space
C13_Witness ==
    /\ pc = "wrapped"
    /\ Len(wr_text) > wr_width
    /\ \E i \in 1..Len(out_file) :
          Len(out_file[i]) = wr_width /\ NoWhitespace(out_file[i])
    /\ \E i \in 1..(Len(out_file) - 1) :
          Len(out_file[i]) < wr_width /\ Len(out_file[i]) > 0

(***************************************************************************)
(* C14: the output file is opened once, only appended to, and closed on    *)
(* every way out of scrape_articles: when the function has returned the    *)
(* file is not open, whether the frontier ran empty, the run time was      *)
(* over, pages failed on the way or a header write failed; and nothing is  *)
(* written to a closed file.                                               *)
(***************************************************************************)
C14_OpenStep ==
    (file_state' = "open" /\ file_state # "open") => file_state = "unopened"

C14_AppendStep ==
    /\ Len(out_file') >= Len(out_file)
    /\ SubSeq(out_file', 1, Len(out_file)) = out_file

C14_ClosedStep ==
    file_state = "closed" => (file_state' = "closed" /\ out_file' = out_file)

C14_ClosedOnReturn ==
    pc \in {"returned", "exited"} => file_state # "open"

\* C14: one open, appends only, closed whenever scrape_articles has
\* returned, no write after the close
C14_SinkLifecycle ==
    /\ [][C14_OpenStep /\ C14_AppendStep /\ C14_ClosedStep]_vars
    /\ []C14_ClosedOnReturn

\* the frontier ran empty after an iteration whose write had failed, and the
\* file that was opened is closed
C14_Witness ==
    /\ pc = "exited"
    /\ file_state = "closed"
    /\ urls_to_visit = <<>>
    /\ ~fatal
    /\ Count(console, TimeoutLine) = 0
    /\ \E i \in 1..Len(fetched) : fetched[i].did = "write_error"

(***************************************************************************)
(* C15: the deadline is looked at once for every entry that is dequeued    *)
(* and fetched, whether the fetch succeeded or failed: a fetch step that   *)
(* ends with the run time over ends the loop with the timeout line, and    *)
(* once a fetched entry has been handled with the run time over no further *)
(* URL is fetched.                                                         *)
(***************************************************************************)
C15_CheckedStep ==
    (FetchStep /\ now' - start_time > run_time) =>
        /\ pc' = "returned"
        /\ console'[Len(console')] = TimeoutLine

C15_NoFetchStep ==
    (fetched # <<>> /\ now - start_time > run_time) => ~FetchStep

\* C15: every fetched entry, failed ones included, is followed by the
\* deadline test before the next entry is dequeued
C15_DeadlineEveryFetch == [][C15_CheckedStep /\ C15_NoFetchStep]_vars

(***************************************************************************)
(* C16: dequeuing an entry whose URL is visited or whose depth is over     *)
(* the maximum only removes that entry: the visited set, the rest of the   *)
(* frontier, the file and the console stay as they are, nothing is fetched *)
(* and the deadline is not looked at; and the frontier only ever grows in  *)
(* a step that fetches a page.                                             *)
(***************************************************************************)
C16_HeadIsSkipped ==
    /\ pc = "loop"
    /\ urls_to_visit # <<>>
    /\ \/ Head(urls_to_visit)[1] \in visited_urls
       \/ Head(urls_to_visit)[2] > depth

C16_SkipStep ==
    C16_HeadIsSkipped =>
        /\ urls_to_visit' = Tail(urls_to_visit)
        /\ UNCHANGED <<visited_urls, out_file, file_state, console, fetched,
                       now, pc>>

C16_OnlyFetchAdds ==
    (pc = "loop" /\ ~FetchStep) =>
        \/ urls_to_visit' = urls_to_visit
        \/ urls_to_visit # <<>> /\ urls_to_visit' = Tail(urls_to_visit)

\* C16: a skipped entry is only removed, and only a fetch adds entries
C16_PureSkip == [][C16_SkipStep /\ C16_OnlyFetchAdds]_vars

\* a visited URL was just skipped with the run time already over, the loop
\* goes on, and an entry is still queued behind it
C16_Witness ==
    /\ pc = "loop"
    /\ soup.did = "skip"
    /\ soup.url \in visited_urls
    /\ now - start_time > run_time
    /\ urls_to_visit # <<>>
    /\ Count(console, TimeoutLine) = 0

(***************************************************************************)
(* C17: in every state every frontier entry is the seed (url, 0) or was    *)
(* appended by a fetched page with the depth of that page plus 1, so the   *)
(* depths in the frontier lie between 0 and depth + 1.                     *)
(***************************************************************************)
C17_IsSeed(e) == e = <<url, 0>>

C17_HasParent(e) ==
    \E j \in 1..Len(fetched) :
        /\ \E k \in 1..Len(fetched[j].enqueued) : fetched[j].enqueued[k] = e
        /\ e[2] = fetched[j].depth + 1

\* C17: every frontier entry but the seed is one level below the fetched
\* page that discovered it; all depths are in 0..depth + 1
C17_ParentDepthPlusOne ==
    \A i \in 1..Len(urls_to_visit) :
        /\ C17_IsSeed(urls_to_visit[i]) \/ C17_HasParent(urls_to_visit[i])
        /\ urls_to_visit[i][2] \in 0..(depth + 1)

\* a page fetched at the maximum depth, two levels below the seed, has left
\* an entry of depth + 1 in the frontier
C17_Witness ==
    /\ pc = "loop"
    /\ depth = 2
    /\ \E i \in 1..Len(urls_to_visit) :
        /\ urls_to_visit[i][2] = depth + 1
        /\ C17_HasParent(urls_to_visit[i])

(***************************************************************************)
(* C18: when start + max_line_length falls strictly inside the text and a  *)
(* whitespace character (a space or a tab) lies after the line start and   *)
(* at or before that point, the line is cut at the nearest one: the line   *)
(* is the text from start up to it, and the next line starts just after    *)
(* it.  Positions are the 0-based indices of the code.                     *)
(***************************************************************************)
C18_Breaks ==
    {k \in (wr_start + 1)..(wr_start + wr_width) :
        k < Len(wr_text) /\ wr_text[k + 1] \in Whitespace}

C18_Nearest == CHOOSE b \in C18_Breaks : \A k \in C18_Breaks : k <= b

C18_BreakStep ==
    (pc = "wrap" /\ wr_start + wr_width < Len(wr_text) /\ C18_Breaks # {}) =>
        /\ out_file' = Append(out_file, SubSeq(wr_text, wr_start + 1, C18_Nearest))
        /\ wr_start' = C18_Nearest + 1

\* C18: the line is broken at the nearest whitespace character at or before
\* start + max_line_length, and only that character is left out
C18_BreakAtWhitespace == [][C18_BreakStep]_vars

(***************************************************************************)
(* C19: the session terminates.  The loop ends by an empty frontier or by  *)
(* the timeout, because a URL is fetched at most once and only a fetched   *)
(* page appends entries: every iteration lowers the rank                   *)
(*   (URLs not yet visited) * (MaxLinks + 1) + (entries in the frontier),  *)
(* a skip by removing an entry, a fetch by visiting a new URL while        *)
(* appending at most MaxLinks entries.                                     *)
(***************************************************************************)
C19_Rank ==
    Cardinality(URLs \ visited_urls) * (MaxLinks + 1) + Len(urls_to_visit)

C19_RankStep ==
    (pc = "loop" /\ urls_to_visit # <<>>) => C19_Rank' < C19_Rank

C19_LeaveStep ==
    (pc = "loop" /\ pc' # "loop") =>
        /\ pc' = "returned"
        /\ \/ urls_to_visit' = <<>>
           \/ console' # <<>> /\ console'[Len(console')] = TimeoutLine

\* C19: every iteration lowers the rank, the loop is left only by an empty
\* frontier or by the timeout, and the script ends
C19_Terminates ==
    /\ [][C19_RankStep /\ C19_LeaveStep]_vars
    /\ <>(pc = "exited")

\* the script has ended on an empty frontier although a fetched page linked
\* to itself: the second entry for it was skipped
C19_Witness ==
    /\ pc = "exited"
    /\ urls_to_visit = <<>>
    /\ Count(console, TimeoutLine) = 0
    /\ Len(fetched) >= 2
    /\ \E j \in 1..Len(fetched) :
        \E k \in 1..Len(fetched[j].enqueued) :
            fetched[j].enqueued[k][1] = fetched[j].url

(***************************************************************************)
(* C20: when the session ends on an empty frontier, without timeout or     *)
(* fatal error, every URL within depth link hops of the start URL through  *)
(* successfully fetched pages has been fetched exactly once, and every     *)
(* fetched URL was fetched at its shortest hop distance.  A link of a page *)
(* leads to urljoin(page URL, href), the URL the href denotes.             *)
(***************************************************************************)
C20_Fetched == {fetched[j] : j \in 1..Len(fetched)}

\* the pages whose requests.get returned: their links are in the record
C20_Pages == {rec \in C20_Fetched : rec.did # "fetch_error"}

C20_Links ==
    UNION {{<<rec.url, urljoin(rec.url, rec.links[k])>> : k \in 1..Len(rec.links)} :
            rec \in C20_Pages}

RECURSIVE C20_Within(_)
C20_Within(n) ==
    IF n = 0 THEN {url}
    ELSE LET near == C20_Within(n - 1)
         IN  near \cup {v \in URLs : \E u \in near : <<u, v>> \in C20_Links}

C20_Hops(u) == CHOOSE n \in 0..depth : u \in C20_Within(n) /\
                   \A m \in 0..depth : u \in C20_Within(m) => n <= m

C20_Exhausted ==
    /\ pc = "exited"
    /\ exit_code = 0
    /\ file_state = "closed"
    /\ ~fatal
    /\ urls_to_visit = <<>>
    /\ Count(console, TimeoutLine) = 0

\* C20: after frontier exhaustion the fetched URLs are exactly those within
\* depth hops, each fetched once, at its shortest hop distance
C20_ShortestHops ==
    C20_Exhausted =>
        /\ \A u \in C20_Within(depth) : Count(FetchedURLs, u) = 1
        /\ \A rec \in C20_Fetched :
            /\ rec.url \in C20_Within(depth)
            /\ rec.depth = C20_Hops(rec.url)

====
